---- MODULE Spec2Model ----
(***************************************************************************)
(* A model of the git object store of Myown-Git-in-cpp: the loose-object    *)
(* writers and reader, the tree codec, the tree builder, clone, and the     *)
(* pack parsers.  Byte strings are sequences of byte values (0..255); text  *)
(* is written as its ASCII codes.                                           *)
(***************************************************************************)
EXTENDS Integers, Sequences, FiniteSets, TLC

VARIABLES
    store,      \* .git/objects: digest hex |-> bytes of the object file
    written,    \* payloads for which writeGitObject has returned a digest
    last,       \* the last command run and what it returned
    pc,         \* concurrent writers: position of each hash-object process
    wpay,       \* concurrent writers: the payload each process is writing
    woff,       \* concurrent writers: bytes of the file already written
    rres,       \* concurrent reader: result of the last cat-file
    tPhase,     \* tree codec: "input", "encoded", "cut", "decoded", "cutDecoded"
    tEntries,   \* tree codec: the entries handed to writeTreeObject
    tData,      \* tree codec: the object bytes writeTreeObject built
    tParsed,    \* tree codec: what parseTreeObject returned for tData
    pPhase,     \* pack parser: "input", or which parsePackfile has run
    pData,      \* pack parser: the buffer handed to parsePackfile
    pResult,    \* pack parser: what parsePackfile returned or threw
    cPhase,     \* clone: "idle", "discover", "request", "done" or "failed"
    cIn,        \* clone: which cloneRepository runs, the peer's reply, the
                \*   files that cannot be opened for writing
    cCwd,       \* clone: the working directory of the process
    cDirs,      \* clone: the directories the call has created
    cFiles,     \* clone: the files the call has written, by path
    cHeadRef,   \* clone: headRef
    cRequestBody, \* clone: requestBody
    cCalls      \* clone: the requests made with makeHTTPRequest and the runs
                \*   of parsePackfile, in order

vars == <<store, written, last, pc, wpay, woff, rres,
          tPhase, tEntries, tData, tParsed, pPhase, pData, pResult,
          cPhase, cIn, cCwd, cDirs, cFiles, cHeadRef, cRequestBody, cCalls>>

storeVars == <<store, written, last>>
concVars == <<pc, wpay, woff, rres>>
treeVars == <<tPhase, tEntries, tData, tParsed>>
packVars == <<pPhase, pData, pResult>>
cloneVars == <<cPhase, cIn, cCwd, cDirs, cFiles, cHeadRef, cRequestBody, cCalls>>

----------------------------------------------------------------------------
(* Bounds of the model. *)

\* longest blob payload the commands are given
MaxPayloadLen == 1
\* most symbolic links the system follows in the lookup of one path (40 on
\* Linux)
SymlinkLimit == 2

\* most object files the store holds before the writers stop adding new ones
MaxObjects == 4
\* most entries of a tree handed to the tree codec
MaxEntries == 2
\* bytes that reach the file in one step of a writer
ChunkSize == 5
\* most objects of a well-formed pack handed to the pack parsers
MaxPackObjects == 2

----------------------------------------------------------------------------
(* Bytes and text. *)

NUL == 0
SP == 32
LF == 10
NPOS == -1
SHA_DIGEST_LENGTH == 20

Min(a, b) == IF a < b THEN a ELSE b

\* std::string::substr(pos, n) with 0-based pos, clamped to the end
Substr(s, pos, n) == SubSeq(s, pos + 1, Min(Len(s), pos + n))

\* std::string::substr(pos): the rest of the string
SubstrFrom(s, pos) == SubSeq(s, pos + 1, Len(s))

\* std::string::find(c, pos): 0-based index of the first c at or after pos
SetMin(S) == CHOOSE i \in S : \A j \in S : i <= j
SetMax(S) == CHOOSE i \in S : \A j \in S : i >= j

Find(s, c, pos) ==
    LET at == {i \in pos..(Len(s) - 1) : s[i + 1] = c}
    IN IF at = {} THEN NPOS ELSE SetMin(at)

\* std::string operator<: byte-wise lexicographic order
RECURSIVE LexLess(_, _)
LexLess(a, b) ==
    IF Len(b) = 0 THEN FALSE
    ELSE IF Len(a) = 0 THEN TRUE
    ELSE IF a[1] # b[1] THEN a[1] < b[1]
    ELSE LexLess(Tail(a), Tail(b))

\* std::to_string of a size: decimal digits, no padding
RECURSIVE to_string(_)
to_string(n) ==
    IF n < 10 THEN <<48 + n>>
    ELSE to_string(n \div 10) \o <<48 + (n % 10)>>

\* one byte as two lowercase hex digits (std::hex, setw(2), setfill('0'))
HexDigit(v) == IF v < 10 THEN 48 + v ELSE 87 + v

RECURSIVE ToHex(_)
ToHex(raw) ==
    IF Len(raw) = 0 THEN <<>>
    ELSE <<HexDigit(raw[1] \div 16), HexDigit(raw[1] % 16)>> \o ToHex(Tail(raw))

\* std::stoi(byteStr, nullptr, 16) on one hex digit
HexVal(c) ==
    IF c >= 48 /\ c <= 57 THEN c - 48
    ELSE IF c >= 97 /\ c <= 102 THEN c - 87
    ELSE c - 55

\* the hex string copied as it is, one byte per hex digit
FromHex_KeepsHex(hex) == hex

\* the hex string as raw bytes, two digits per byte
RECURSIVE FromHex(_)
FromHex(hex) ==
    IF Len(hex) < 2 THEN <<>>
    ELSE <<16 * HexVal(hex[1]) + HexVal(hex[2])>> \o FromHex(SubstrFrom(hex, 2))

----------------------------------------------------------------------------
(* SHA-1.  The library's hash is represented by a 20-byte digest of        *)
(* position-weighted byte sums: like SHA-1 it is a function of the bytes    *)
(* alone, and it has no collision on the byte strings this model builds.    *)

\* the sum of f[i] over lo..hi, modulo 251
RECURSIVE SumMod(_, _, _)
SumMod(f, lo, hi) ==
    IF lo > hi THEN 0
    ELSE IF lo = hi THEN f[lo] % 251
    ELSE LET mid == (lo + hi) \div 2
         IN (SumMod(f, lo, mid) + SumMod(f, mid + 1, hi)) % 251

SHA1(data) ==
    [k \in 1..SHA_DIGEST_LENGTH |->
        (Len(data) + k +
         SumMod([i \in 1..Len(data) |->
                    (data[i] + 1) * (((k + 1) * i * i + k * i + 1) % 251)],
                1, Len(data))) % 251]

computeSHA1(data) == ToHex(SHA1(data))

----------------------------------------------------------------------------
(* zlib.  A stream is the two header bytes, the length of the data, the    *)
(* data, and a checksum of the data.                                        *)

ZHeader == <<120, 156>>

SumBytes(s) == (1 + SumMod(s, 1, Len(s))) % 251

compressZlib(data) == ZHeader \o <<Len(data)>> \o data \o <<SumBytes(data)>>

\* TRUE when inflate reports Z_DATA_ERROR on these bytes
InflateError(c) ==
    \/ Len(c) >= 2 /\ SubSeq(c, 1, 2) # ZHeader
    \/ Len(c) >= 3 /\ Len(c) >= 3 + c[3] + 1
                   /\ c[3 + c[3] + 1] # SumBytes(SubSeq(c, 4, 3 + c[3]))

\* the bytes inflate has produced when the input runs out or the stream ends
InflateOutput(c) ==
    IF Len(c) < 3 THEN <<>> ELSE SubSeq(c, 4, Min(Len(c), 3 + c[3]))

\* decompressZlib: throws only on an inflate error, otherwise returns the output
decompressZlib(c) ==
    IF InflateError(c) THEN [ok |-> FALSE, data |-> <<>>]
    ELSE [ok |-> TRUE, data |-> InflateOutput(c)]

----------------------------------------------------------------------------
(* Object bytes. *)

Str_blob == <<98, 108, 111, 98, 32>>
Str_tree == <<116, 114, 101, 101, 32>>
Str_commit == <<99, 111, 109, 109, 105, 116, 32>>

\* the headers the three writers build
BlobHeader(content) == Str_blob \o to_string(Len(content))
TreeHeader(treeContent) == Str_tree \o to_string(Len(treeContent))
CommitHeader(commitContent) == Str_commit \o to_string(Len(commitContent))

\* writeGitObject: "blob <size>\0<content>"
BlobObjectData(content) == BlobHeader(content) \o <<NUL>> \o content

\* writeTreeObject: the tree content, "mode name\0" and the raw hash per entry
RECURSIVE TreeContent(_)
TreeContent(entries) ==
    IF Len(entries) = 0 THEN <<>>
    ELSE (entries[1].mode \o <<SP>> \o entries[1].name \o <<NUL>>
            \o FromHex(entries[1].hash))
         \o TreeContent(Tail(entries))

\* writeTreeObject: "tree <size>\0<content>"
TreeObjectData(entries) ==
    TreeHeader(TreeContent(entries)) \o <<NUL>> \o TreeContent(entries)

\* the loop of parseTreeObject stepping 20 bytes past the NUL instead of 21
RECURSIVE ParseTreeLoop_Step20(_, _, _)
ParseTreeLoop_Step20(objectData, pos, entries) ==
    IF ~(pos < Len(objectData)) THEN entries
    ELSE LET spacePos == Find(objectData, SP, pos) IN
    IF spacePos = NPOS THEN entries
    ELSE LET mode == Substr(objectData, pos, spacePos - pos)
             nameEndPos == Find(objectData, NUL, spacePos) IN
    IF nameEndPos = NPOS THEN entries
    ELSE LET name == Substr(objectData, spacePos + 1, nameEndPos - spacePos - 1) IN
    IF nameEndPos + 20 > Len(objectData) THEN entries
    ELSE LET rawHash == Substr(objectData, nameEndPos + 1, 20)
             hash == ToHex(rawHash) IN
    ParseTreeLoop_Step20(objectData, nameEndPos + 20,
                  Append(entries, [mode |-> mode, name |-> name, hash |-> hash]))

\* parseTreeObject: the loop over the entries, pos is 0-based
RECURSIVE ParseTreeLoop(_, _, _)
ParseTreeLoop(objectData, pos, entries) ==
    IF ~(pos < Len(objectData)) THEN entries
    ELSE LET spacePos == Find(objectData, SP, pos) IN
    IF spacePos = NPOS THEN entries
    ELSE LET mode == Substr(objectData, pos, spacePos - pos)
             nameEndPos == Find(objectData, NUL, spacePos) IN
    IF nameEndPos = NPOS THEN entries
    ELSE LET name == Substr(objectData, spacePos + 1, nameEndPos - spacePos - 1) IN
    IF nameEndPos + 20 > Len(objectData) THEN entries
    ELSE LET rawHash == Substr(objectData, nameEndPos + 1, 20)
             hash == ToHex(rawHash) IN
    ParseTreeLoop(objectData, nameEndPos + 21,
                  Append(entries, [mode |-> mode, name |-> name, hash |-> hash]))

\* parseTreeObject: skips the header, throws when it has no NUL
parseTreeObject(objectData) ==
    LET nullPos == Find(objectData, NUL, 0) IN
    IF nullPos = NPOS THEN [ok |-> FALSE, entries |-> <<>>]
    ELSE [ok |-> TRUE, entries |-> ParseTreeLoop(objectData, nullPos + 1, <<>>)]

\* writeCommitObject: the commit content for a tree, an optional parent, a message
Str_treeSp == <<116, 114, 101, 101, 32>>
Str_parentSp == <<112, 97, 114, 101, 110, 116, 32>>
Str_author == <<97, 117, 116, 104, 111, 114, 32, 84, 101, 115, 116, 32, 65, 117,
                116, 104, 111, 114, 32, 60, 116, 101, 115, 116, 64, 101, 120, 97,
                109, 112, 108, 101, 46, 99, 111, 109, 62, 32>>
Str_committer == <<99, 111, 109, 109, 105, 116, 116, 101, 114, 32, 84, 101, 115,
                   116, 32, 65, 117, 116, 104, 111, 114, 32, 60, 116, 101, 115,
                   116, 64, 101, 120, 97, 109, 112, 108, 101, 46, 99, 111, 109,
                   62, 32>>
Str_utc == <<32, 43, 48, 48, 48, 48, 10>>

CommitContent(treeHash, parentHash, message, now) ==
    (Str_treeSp \o treeHash \o <<LF>>)
    \o (IF Len(parentHash) # 0 THEN Str_parentSp \o parentHash \o <<LF>> ELSE <<>>)
    \o (Str_author \o to_string(now) \o Str_utc)
    \o (Str_committer \o to_string(now) \o Str_utc)
    \o <<LF>>
    \o (message \o <<LF>>)

\* writeCommitObject: "commit <size>\0<content>"
CommitObjectData(commitContent) ==
    CommitHeader(commitContent) \o <<NUL>> \o commitContent

----------------------------------------------------------------------------
(* The tree codec on its own: writeTreeObject's bytes, then parseTreeObject. *)

Mode_file == <<49, 48, 48, 54, 52, 52>>
Mode_dir == <<52, 48, 48, 48, 48>>

\* a, "a b", b
TreeNames == {<<97>>, <<97, SP, 98>>, <<98>>}
TreeModes == {Mode_file, Mode_dir}

\* raw digests with the bytes the parser looks for (NUL, space) inside them
RawZero == [k \in 1..SHA_DIGEST_LENGTH |-> 0]
RawMixed == [k \in 1..SHA_DIGEST_LENGTH |->
                IF k = 1 THEN SP ELSE IF k = 2 THEN NUL ELSE IF k = 3 THEN 255
                ELSE (7 * k) % 256]
TreeDigests == {ToHex(RawZero), ToHex(RawMixed), computeSHA1(<<97>>)}

TreeEntries == [mode : TreeModes, name : TreeNames, hash : TreeDigests]

\* the entry sequences of length n sorted by name, no name twice
RECURSIVE SortedEntrySeqs(_)
SortedEntrySeqs(n) ==
    IF n = 0 THEN {<<>>}
    ELSE UNION {{Append(s, e) : e \in {x \in TreeEntries :
                    Len(s) = 0 \/ LexLess(s[Len(s)].name, x.name)}} :
                s \in SortedEntrySeqs(n - 1)}

TreeInputs == UNION {SortedEntrySeqs(n) : n \in 0..MaxEntries}

CloneIdle ==
    /\ cPhase = "off" /\ cIn = <<>> /\ cCwd = "original"
    /\ cDirs = {} /\ cFiles = <<>> /\ cHeadRef = <<>>
    /\ cRequestBody = <<>> /\ cCalls = <<>>

PackIdle == pPhase = "off" /\ pData = <<>> /\ pResult = <<>>

TreeIdle ==
    /\ tPhase = "off" /\ tEntries = <<>> /\ tData = <<>>
    /\ tParsed = [ok |-> TRUE, entries |-> <<>>]

InitTree ==
    /\ tPhase = "input"
    /\ tEntries \in TreeInputs
    /\ tData = <<>>
    /\ tParsed = [ok |-> TRUE, entries |-> <<>>]
    /\ store = <<>> /\ written = {} /\ last = <<>>
    /\ pc = <<>> /\ wpay = <<>> /\ woff = <<>> /\ rres = <<>>
    /\ PackIdle /\ CloneIdle

\* writeTreeObject builds the object bytes of the entries
EncodeTree ==
    /\ tPhase = "input"
    /\ tData' = TreeObjectData(tEntries)
    /\ tPhase' = "encoded"
    /\ UNCHANGED <<tEntries, tParsed, storeVars, concVars, packVars, cloneVars>>

\* the object bytes end early: only their first n bytes, the header and a
\* part of the records, reach parseTreeObject
CutTree ==
    /\ tPhase = "encoded"
    /\ \E n \in (Find(tData, NUL, 0) + 1)..(Len(tData) - 1) :
          tData' = Substr(tData, 0, n)
    /\ tPhase' = "cut"
    /\ UNCHANGED <<tEntries, tParsed, storeVars, concVars, packVars, cloneVars>>

\* ls-tree hands the object bytes to parseTreeObject
DecodeTree ==
    /\ tPhase \in {"encoded", "cut"}
    /\ tParsed' = parseTreeObject(tData)
    /\ tPhase' = IF tPhase = "encoded" THEN "decoded" ELSE "cutDecoded"
    /\ UNCHANGED <<tEntries, tData, storeVars, concVars, packVars, cloneVars>>

NextTree == EncodeTree \/ CutTree \/ DecodeTree

\* the tree codec applied to every sorted, name-unique entry sequence
SpecTree == InitTree /\ [][NextTree]_vars

----------------------------------------------------------------------------
(* The object store and the commands that read and write it. *)

\* the file of digest h is created or truncated and rewritten with bytes
PutFile(st, h, bytes) ==
    [k \in DOMAIN st \cup {h} |-> IF k = h THEN bytes ELSE st[k]]

\* every file of the set, a pair of digest and bytes, is written
RECURSIVE PutAll(_, _)
PutAll(st, files) ==
    IF files = {} THEN st
    ELSE LET f == CHOOSE x \in files : TRUE
         IN PutAll(PutFile(st, f[1], f[2]), files \ {f})

\* readGitObject taking a file that cannot be opened for an empty one
readGitObject_NoOpenCheck(st, hash) ==
    IF hash \notin DOMAIN st THEN [ok |-> TRUE, err |-> "", data |-> <<>>]
    ELSE LET r == decompressZlib(st[hash])
         IN IF r.ok THEN [ok |-> TRUE, err |-> "", data |-> r.data]
            ELSE [ok |-> FALSE, err |-> "decompress", data |-> <<>>]

\* readGitObject: throws when the file cannot be opened or inflate fails
readGitObject(st, hash) ==
    IF hash \notin DOMAIN st THEN [ok |-> FALSE, err |-> "not found", data |-> <<>>]
    ELSE LET r == decompressZlib(st[hash])
         IN IF r.ok THEN [ok |-> TRUE, err |-> "", data |-> r.data]
            ELSE [ok |-> FALSE, err |-> "decompress", data |-> <<>>]

\* cat-file -p: reads the object, needs a NUL, prints what follows it
catFile(st, hash) ==
    LET r == readGitObject(st, hash) IN
    IF ~r.ok
    THEN [op |-> "cat-file", ok |-> FALSE, err |-> r.err, hash |-> hash,
          header |-> <<>>, payload |-> <<>>]
    ELSE LET nullPos == Find(r.data, NUL, 0) IN
         IF nullPos = NPOS
         THEN [op |-> "cat-file", ok |-> FALSE, err |-> "invalid format",
               hash |-> hash, header |-> <<>>, payload |-> <<>>]
         ELSE [op |-> "cat-file", ok |-> TRUE, err |-> "", hash |-> hash,
               header |-> Substr(r.data, 0, nullPos),
               payload |-> SubstrFrom(r.data, nullPos + 1)]

\* writeGitObject hashing the content without its header
writeGitObject_HashesContent(content) == computeSHA1(content)

\* the blob digest writeGitObject returns
writeGitObject(content) == computeSHA1(BlobObjectData(content))

\* the tree digest writeTreeObject returns
writeTreeObject(entries) == computeSHA1(TreeObjectData(entries))

\* the commit digest writeCommitObject returns
writeCommitObject(treeHash, parentHash, message, now) ==
    computeSHA1(CommitObjectData(CommitContent(treeHash, parentHash, message, now)))

\* std::sort of the entries by name
RECURSIVE SortByName(_)
SortByName(S) ==
    IF S = {} THEN <<>>
    ELSE LET m == CHOOSE e \in S : \A o \in S \ {e} : ~LexLess(o.name, e.name)
         IN <<m>> \o SortByName(S \ {m})

Name_git == <<46, 103, 105, 116>>

\* entry.is_regular_file(), entry.is_directory(): a file that cannot be opened
\* is a regular file all the same; a fifo is neither
IsRegularFile(e) == e.kind \in {"file", "unreadable"}
IsDirectory(e) == e.kind = "dir"

\* the loop skipping no entry, .git included
Visible_KeepsGit(dir) == dir

\* the entries the loop does not skip
Visible(dir) == {x \in dir : x.name # Name_git}

\* the test of the opened stream left out: every file taken as opened
OpenFails_Never(e) == FALSE

\* std::ifstream file(entry.path()); !file
OpenFails(e) == e.kind = "unreadable"

\* createTreeFromDirectory: the sorted entries of a directory, then its tree
RECURSIVE DirEntries(_)
DirEntries(dir) ==
    SortByName(
        {[mode |-> Mode_file, name |-> e.name, hash |-> writeGitObject(e.content)] :
            e \in {x \in Visible(dir) : IsRegularFile(x)}}
        \cup
        {[mode |-> Mode_dir, name |-> e.name,
          hash |-> writeTreeObject(DirEntries(e.children))] :
            e \in {x \in Visible(dir) : IsDirectory(x)}})

createTreeFromDirectory(dir) == writeTreeObject(DirEntries(dir))

\* the file contents createTreeFromDirectory hands to writeGitObject
RECURSIVE FileContents(_)
FileContents(dir) ==
    {e.content : e \in {x \in Visible(dir) : IsRegularFile(x)}}
    \cup UNION {FileContents(e.children) :
        e \in {x \in Visible(dir) : IsDirectory(x)}}

\* the objects createTreeFromDirectory writes: blobs, subtrees, the tree itself
RECURSIVE TreeWrites(_)
TreeWrites(dir) ==
    {BlobObjectData(e.content) :
        e \in {x \in Visible(dir) : IsRegularFile(x)}}
    \cup UNION {TreeWrites(e.children) :
        e \in {x \in Visible(dir) : IsDirectory(x)}}
    \cup {TreeObjectData(DirEntries(dir))}

\* a symbolic link to the directory that holds it: entry.is_regular_file()
\* and entry.is_directory() follow it, so it is a directory to the loop
IsLink(e) == e.kind = "uplink"

\* the status of a path fails once the path goes through more symbolic links
\* than the system follows in one lookup (ELOOP), and the failure is thrown
\* as a filesystem_error; the later limit is for the comparison
StatusFails_Late(links) == links > 2 * SymlinkLimit + 1

StatusFails(links) == links > SymlinkLimit

\* createTreeFromDirectory throws: a file of the directory, or of a directory
\* below it, cannot be opened, or the status of an entry fails; links is the
\* number of symbolic links in dirPath
RECURSIVE ThrowsAt(_, _)
ThrowsAt(dir, links) ==
    \E e \in Visible(dir) :
        \/ IsRegularFile(e) /\ OpenFails(e)
        \/ IsDirectory(e) /\ ThrowsAt(e.children, links)
        \/ IsLink(e) /\ (StatusFails(links + 1) \/ ThrowsAt(dir, links + 1))

Throws(dir) == ThrowsAt(dir, 0)

\* the deepest nesting of calls of createTreeFromDirectory a run on the
\* directory can reach, the first call counted
RECURSIVE DepthAt(_, _)
DepthAt(dir, links) ==
    1 + SetMax({0}
          \cup {DepthAt(e.children, links) :
                  e \in {x \in Visible(dir) : IsDirectory(x)}}
          \cup {DepthAt(dir, links + 1) :
                  e \in {x \in Visible(dir) :
                           IsLink(x) /\ ~StatusFails(links + 1)}})

\* the nesting of the directories themselves, no link followed
RECURSIVE Height(_)
Height(dir) ==
    1 + SetMax({0} \cup {Height(e.children) :
                           e \in {x \in Visible(dir) : IsDirectory(x)}})

\* the directory, or a directory below it, holds a symbolic link
RECURSIVE HasLink(_)
HasLink(dir) ==
    \E e \in Visible(dir) : IsLink(e) \/ (IsDirectory(e) /\ HasLink(e.children))

\* the objects written for one entry that does not throw
EntryWrites(e) ==
    IF IsRegularFile(e) THEN {BlobObjectData(e.content)}
    ELSE IF IsDirectory(e) THEN TreeWrites(e.children)
    ELSE {}

\* the objects a run of createTreeFromDirectory may have written when it
\* returns or throws: directory_iterator gives the entries in no stated
\* order, so any set of the entries that do not throw may come before the
\* first one that does
RECURSIVE TreeRunsAt(_, _)
TreeRunsAt(dir, links) ==
    IF ~ThrowsAt(dir, links) THEN {TreeWrites(dir)}
    ELSE LET bad == {e \in Visible(dir) :
                        \/ IsRegularFile(e) /\ OpenFails(e)
                        \/ IsDirectory(e) /\ ThrowsAt(e.children, links)
                        \/ IsLink(e)}
             good == Visible(dir) \ bad
         IN UNION {UNION {{UNION {EntryWrites(e) : e \in before} \cup below :
                             below \in (IF IsDirectory(t)
                                        THEN TreeRunsAt(t.children, links)
                                        ELSE IF IsLink(t) /\ ~StatusFails(links + 1)
                                        THEN TreeRunsAt(dir, links + 1)
                                        ELSE {{}})} :
                          before \in SUBSET good} :
                   t \in bad}

TreeRuns(dir) == TreeRunsAt(dir, 0)

\* the payloads and the working directories the commands are run on
PayloadBytes == {NUL, 104}

RECURSIVE SeqsUpTo(_, _)
SeqsUpTo(S, n) ==
    IF n = 0 THEN {<<>>}
    ELSE SeqsUpTo(S, n - 1) \cup
         {Append(q, b) : q \in {x \in SeqsUpTo(S, n - 1) : Len(x) = n - 1}, b \in S}

Payloads == SeqsUpTo(PayloadBytes, MaxPayloadLen)

File(name, content) ==
    [name |-> name, kind |-> "file", content |-> content, children |-> {}]
Dir(name, children) ==
    [name |-> name, kind |-> "dir", content |-> <<>>, children |-> children]

\* a regular file that cannot be opened, and a fifo
Unreadable(name) ==
    [name |-> name, kind |-> "unreadable", content |-> <<>>, children |-> {}]
Fifo(name) ==
    [name |-> name, kind |-> "other", content |-> <<>>, children |-> {}]
\* a symbolic link to the directory it is in
Uplink(name) ==
    [name |-> name, kind |-> "uplink", content |-> <<>>, children |-> {}]

WorkTrees ==
    {{Dir(Name_git, {File(<<72>>, <<>>)}), File(<<97>>, p)} : p \in Payloads}
    \cup {{}, {File(<<98>>, <<104>>), Dir(<<97>>, {File(<<97>>, <<>>)})}}

\* "a.t", a name that has the directory name "a" as a prefix
Name_a_t == <<97, 46, 116>>

\* the directories the tree builder is run on: a file and a directory sharing
\* a prefix, files of equal content, a fifo, files that cannot be opened at
\* the top and below a subdirectory, a symbolic link to the directory it is
\* in at the top and below a subdirectory
BuildTrees ==
    WorkTrees
    \cup {{File(Name_a_t, <<>>), Dir(<<97>>, {})},
          {File(<<97>>, <<104>>), File(<<98>>, <<104>>)},
          {Fifo(<<112>>), File(<<97>>, <<>>)},
          {Unreadable(<<117>>), File(<<97>>, <<104>>)},
          {Dir(<<100>>, {Unreadable(<<117>>)}), Dir(<<101>>, {File(<<97>>, <<>>)}),
           File(<<98>>, <<104>>)},
          {Uplink(<<108>>), File(<<97>>, <<104>>)},
          {Dir(<<100>>, {Uplink(<<108>>), File(<<97>>, <<>>)}), File(<<98>>, <<104>>)}}

EmptyTreeHash == computeSHA1(TreeObjectData(<<>>))
CommitTrees == {EmptyTreeHash}
\* the -p arguments of commit-tree: none, one commit, two commits
Parent1 == writeCommitObject(EmptyTreeHash, <<>>, <<109>>, 1700000000)
Parent2 == writeCommitObject(EmptyTreeHash, Parent1, <<109>>, 1700000000)
CommitParents == {<<>>, <<Parent1>>, <<Parent1, Parent2>>}
CommitMessages == {<<109>>}
CommitTimes == {1700000000}

NoResult ==
    [op |-> "", ok |-> TRUE, err |-> "", hash |-> <<>>, header |-> <<>>,
     payload |-> <<>>]

WriteResult(op, hash, header, payload) ==
    [op |-> op, ok |-> TRUE, err |-> "", hash |-> hash, header |-> header,
     payload |-> payload]

Failure(op, err) ==
    [op |-> op, ok |-> FALSE, err |-> err, hash |-> <<>>, header |-> <<>>,
     payload |-> <<>>]

Fits(st) == Cardinality(DOMAIN st) <= MaxObjects

\* what each command computes from its input alone, per input
BlobOf ==
    [content \in Payloads |->
        [hash |-> writeGitObject(content),
         file |-> compressZlib(BlobObjectData(content))]]

TreeOf ==
    [dir \in BuildTrees |->
        [ok |-> ~Throws(dir),
         err |-> IF HasLink(dir) THEN "status" ELSE "open",
         depth |-> DepthAt(dir, 0),
         hash |-> IF Throws(dir) THEN <<>> ELSE createTreeFromDirectory(dir),
         content |-> IF Throws(dir) THEN <<>> ELSE TreeContent(DirEntries(dir)),
         runs |-> {[files |-> {<<computeSHA1(o), compressZlib(o)>> : o \in run},
                    blobs |-> {c \in FileContents(dir) : BlobObjectData(c) \in run}] :
                   run \in TreeRuns(dir)}]]

CommitInputs ==
    {<<t, p, m, now>> : t \in CommitTrees, p \in CommitParents,
                        m \in CommitMessages, now \in CommitTimes}

\* main (commit-tree): argc is 5 with no -p and 7 with one; any other
\* argument list is a usage error
UsageError(parents) == Len(parents) > 1

\* main (commit-tree): the parentHash handed to writeCommitObject
ParentHashOf(parents) == IF Len(parents) = 0 THEN <<>> ELSE parents[1]

CommitOf ==
    [c \in CommitInputs |->
        IF UsageError(c[2])
        THEN [ok |-> FALSE, hash |-> <<>>, content |-> <<>>, file |-> <<>>]
        ELSE [ok |-> TRUE,
              hash |-> writeCommitObject(c[1], ParentHashOf(c[2]), c[3], c[4]),
              content |-> CommitContent(c[1], ParentHashOf(c[2]), c[3], c[4]),
              file |-> compressZlib(CommitObjectData(
                          CommitContent(c[1], ParentHashOf(c[2]), c[3], c[4])))]]

\* hash-object -w: writeGitObject of the file's bytes
HashObject(content) ==
    LET st == PutFile(store, BlobOf[content].hash, BlobOf[content].file)
    IN  /\ Fits(st)
        /\ store' = st
        /\ written' = written \cup {content}
        /\ last' = WriteResult("hash-object", BlobOf[content].hash,
                               BlobHeader(content), content)
        /\ UNCHANGED <<concVars, treeVars, packVars, cloneVars>>

\* cat-file -p <object>
CatFile(hash) ==
    /\ last' = catFile(store, hash)
    /\ UNCHANGED <<store, written, concVars, treeVars, packVars, cloneVars>>

\* write-tree: createTreeFromDirectory(".")
WriteTree(dir) ==
    \E run \in TreeOf[dir].runs :
        LET st == PutAll(store, run.files)
        IN  /\ Fits(st)
            /\ store' = st
            /\ written' = written \cup run.blobs
            /\ last' = IF TreeOf[dir].ok
                       THEN WriteResult("write-tree", TreeOf[dir].hash,
                                        TreeHeader(TreeOf[dir].content),
                                        TreeOf[dir].content)
                       ELSE Failure("write-tree", TreeOf[dir].err)
            /\ UNCHANGED <<concVars, treeVars, packVars, cloneVars>>

\* commit-tree <tree> [-p <parent>] -m <message>
CommitTree(c) ==
    IF ~CommitOf[c].ok
    THEN /\ last' = Failure("commit-tree", "usage")
         /\ UNCHANGED <<store, written, concVars, treeVars, packVars, cloneVars>>
    ELSE LET st == PutFile(store, CommitOf[c].hash, CommitOf[c].file)
         IN  /\ Fits(st)
             /\ store' = st
             /\ last' = WriteResult("commit-tree", CommitOf[c].hash,
                                    CommitHeader(CommitOf[c].content),
                                    CommitOf[c].content)
             /\ UNCHANGED <<written, concVars, treeVars, packVars, cloneVars>>

----------------------------------------------------------------------------
(* clone: the ref advertisement, the head reference, the objects written. *)

\* std::string::find(pat, pos): 0-based index of the first occurrence of pat
FindStr(s, pat, pos) ==
    LET at == {i \in pos..(Len(s) - Len(pat)) : Substr(s, i, Len(pat)) = pat}
    IN IF at = {} THEN NPOS ELSE SetMin(at)

\* std::isxdigit
IsXDigit(c) ==
    \/ c >= 48 /\ c <= 57
    \/ c >= 97 /\ c <= 102
    \/ c >= 65 /\ c <= 70

Str_master == <<114, 101, 102, 115, 47, 104, 101, 97, 100, 115, 47, 109, 97, 115,
                116, 101, 114>>
Str_mainRef == <<114, 101, 102, 115, 47, 104, 101, 97, 100, 115, 47, 109, 97, 105,
                 110>>
Str_service == <<48, 48, 49, 101, 35, 32, 115, 101, 114, 118, 105, 99, 101, 61,
                 103, 105, 116, 45, 117, 112, 108, 111, 97, 100, 45, 112, 97, 99,
                 107, 10>>
Str_flush == <<48, 48, 48, 48>>
Str_targetHash == <<55, 102, 100, 49, 97, 54, 48, 98, 48, 49, 102, 57, 49, 98, 51,
                    49, 52, 102, 53, 57, 57, 53, 53, 97, 52, 101, 52, 100, 52, 101,
                    56, 48, 100, 56, 101, 100, 102, 49, 49, 100>>
Str_cloneAuthor == <<97, 117, 116, 104, 111, 114, 32, 80, 97, 117, 108, 32, 75,
                     117, 114, 117, 118, 105, 108, 108, 97, 32, 60, 112, 97, 117,
                     108, 64, 99, 111, 100, 101, 99, 114, 97, 102, 116, 101, 114,
                     115, 46, 105, 111, 62, 32, 49, 50, 51, 52, 53, 54, 55, 56, 57,
                     48, 32, 43, 48, 48, 48, 48, 10>>
Str_cloneCommitter == <<99, 111, 109, 109, 105, 116, 116, 101, 114, 32, 80, 97,
                        117, 108, 32, 75, 117, 114, 117, 118, 105, 108, 108, 97,
                        32, 60, 112, 97, 117, 108, 64, 99, 111, 100, 101, 99, 114,
                        97, 102, 116, 101, 114, 115, 46, 105, 111, 62, 32, 49, 50,
                        51, 52, 53, 54, 55, 56, 57, 48, 32, 43, 48, 48, 48, 48, 10>>
Str_initialCommit == <<73, 110, 105, 116, 105, 97, 108, 32, 99, 111, 109, 109, 105,
                       116, 10>>

\* a pkt-line of the peer: four hex digits of the length, then the payload
PktLine(payload) ==
    LET n == Len(payload) + 4
    IN <<HexDigit(n \div 4096), HexDigit((n \div 256) % 16),
         HexDigit((n \div 16) % 16), HexDigit(n % 16)>> \o payload

\* the ref advertisement of a peer whose one branch, ref, is at digest hash
Advertisement(hash, ref) ==
    Str_service \o Str_flush \o PktLine(hash \o <<SP>> \o ref \o <<LF>>)
        \o Str_flush

\* the bodies the peer answers the info/refs request with
AdvertisedHashes ==
    {writeGitObject(<<104>>), EmptyTreeHash, Str_targetHash}
Bodies ==
    {Advertisement(h, Str_master) : h \in AdvertisedHashes}
    \cup {Advertisement(Str_targetHash, Str_mainRef)}

\* cloneRepository (main.cpp): the fixed digest, when the body holds it
HeadRefFixed(body) ==
    IF FindStr(body, Str_targetHash, 0) # NPOS THEN Str_targetHash ELSE <<>>

\* cloneRepository (part_001): the 40 hex digits nearest before refs/heads/master
ScanHash(body, masterPos) ==
    LET at == {i \in 40..masterPos :
                 \A k \in (i - 39)..i : IsXDigit(body[k])}
    IN IF at = {} THEN <<>> ELSE Substr(body, SetMax(at) - 40, 40)

HeadRefMaster(body) ==
    LET masterPos == FindStr(body, Str_master, 0)
    IN IF masterPos # NPOS THEN ScanHash(body, masterPos) ELSE <<>>

\* cloneRepository (part_001): the commit it writes for the empty tree
CloneCommitContent(treeHash) ==
    (Str_treeSp \o treeHash \o <<LF>>) \o Str_cloneAuthor \o Str_cloneCommitter
        \o <<LF>> \o Str_initialCommit

\* what the peer and the network do to one clone: a bad url, a transport
\* failure, a status other than 200, or a body
Replies ==
    {[urlOk |-> FALSE, transportOk |-> TRUE, status |-> 200, body |-> <<>>],
     [urlOk |-> TRUE, transportOk |-> FALSE, status |-> 200, body |-> <<>>],
     [urlOk |-> TRUE, transportOk |-> TRUE, status |-> 404, body |-> <<>>]}
    \cup {[urlOk |-> TRUE, transportOk |-> TRUE, status |-> 200, body |-> b] :
            b \in Bodies}

\* cloneRepository up to the head reference: where it throws, or the reference
CloneOutcome(r, headRef) ==
    IF ~r.urlOk THEN Failure("clone", "invalid url")
    ELSE IF ~r.transportOk THEN Failure("clone", "http")
    ELSE IF r.status # 200 THEN Failure("clone", "info/refs")
    ELSE IF headRef = <<>> THEN Failure("clone", "no head")
    ELSE WriteResult("clone", headRef, <<>>, <<>>)

\* cloneRepository (part_001): the tree and the commit it writes, as files
CloneTreeData == TreeHeader(<<>>) \o <<NUL>>
CloneTreeHash == computeSHA1(CloneTreeData)
CloneCommitData ==
    CommitHeader(CloneCommitContent(CloneTreeHash)) \o <<NUL>>
        \o CloneCommitContent(CloneTreeHash)

\* what the two versions of cloneRepository do, per reply
CloneFixedOf == [r \in Replies |-> CloneOutcome(r, HeadRefFixed(r.body))]
CloneMasterOf == [r \in Replies |-> CloneOutcome(r, HeadRefMaster(r.body))]
CloneTreeFile == <<CloneTreeHash, compressZlib(CloneTreeData)>>
CloneCommitFile == compressZlib(CloneCommitData)

\* clone <url> <dir> (main.cpp): writes HEAD and the ref, no object
CloneFixed(r) ==
    /\ last' = CloneFixedOf[r]
    /\ UNCHANGED <<store, written, concVars, treeVars, packVars, cloneVars>>

\* clone <url> <dir> (part_001): writes the empty tree under its digest and a
\* commit of it under the advertised digest
CloneMaster(r) ==
    LET st == PutFile(PutFile(store, CloneTreeFile[1], CloneTreeFile[2]),
                      CloneMasterOf[r].hash, CloneCommitFile)
    IN  /\ CloneMasterOf[r].ok => Fits(st)
        /\ store' = IF CloneMasterOf[r].ok THEN st ELSE store
        /\ last' = CloneMasterOf[r]
        /\ UNCHANGED <<written, concVars, treeVars, packVars, cloneVars>>

MissingHash == computeSHA1(<<104>>)
KnownHashes ==
    {writeGitObject(p) : p \in Payloads} \cup AdvertisedHashes \cup {MissingHash}

InitStore ==
    /\ store = <<>>
    /\ written = {}
    /\ last = NoResult

ConcIdle == pc = <<>> /\ wpay = <<>> /\ woff = <<>> /\ rres = <<>>

Init == InitStore /\ ConcIdle /\ TreeIdle /\ PackIdle /\ CloneIdle

Next ==
    \/ \E content \in Payloads : HashObject(content)
    \/ \E hash \in KnownHashes : CatFile(hash)
    \/ \E dir \in WorkTrees : WriteTree(dir)
    \/ \E c \in CommitInputs : CommitTree(c)
    \/ \E r \in Replies : CloneFixed(r)
    \/ \E r \in Replies : CloneMaster(r)

Spec == Init /\ [][Next]_vars

----------------------------------------------------------------------------
(* Two hash-object processes and a cat-file process on one store.  A writer *)
(* opens the object file, which truncates it, and its bytes then reach the  *)
(* file a chunk at a time; the reader reads the file as it is.              *)

Procs == {1, 2}

\* the bytes of a file after chunk is written at offset off (0-based)
WriteAt(f, off, chunk) ==
    [i \in 1..(IF Len(f) > off + Len(chunk) THEN Len(f) ELSE off + Len(chunk)) |->
        IF i > off /\ i <= off + Len(chunk) THEN chunk[i - off]
        ELSE IF i <= Len(f) THEN f[i]
        ELSE 0]

InitConc ==
    /\ store = <<>>
    /\ pc = [p \in Procs |-> "idle"]
    /\ wpay = [p \in Procs |-> <<>>]
    /\ woff = [p \in Procs |-> 0]
    /\ rres = [res |-> NoResult, file |-> <<>>]
    /\ written = {} /\ last = NoResult /\ TreeIdle /\ PackIdle /\ CloneIdle

\* writeGitObject up to the opening of the object file
OpenObjectFile(p, content) ==
    /\ pc[p] = "idle"
    /\ store' = PutFile(store, BlobOf[content].hash, <<>>)
    /\ pc' = [pc EXCEPT ![p] = "open"]
    /\ wpay' = [wpay EXCEPT ![p] = content]
    /\ woff' = [woff EXCEPT ![p] = 0]
    /\ UNCHANGED <<rres, written, last, treeVars, packVars, cloneVars>>

\* writeGitObject from file.write to file.close: the next bytes reach the file
WriteObjectFile(p) ==
    /\ pc[p] = "open"
    /\ LET hash == BlobOf[wpay[p]].hash
           data == BlobOf[wpay[p]].file
           n == Min(ChunkSize, Len(data) - woff[p])
       IN  /\ store' = PutFile(store, hash,
                               WriteAt(store[hash], woff[p],
                                       SubSeq(data, woff[p] + 1, woff[p] + n)))
           /\ woff' = [woff EXCEPT ![p] = woff[p] + n]
           /\ pc' = [pc EXCEPT ![p] =
                        IF woff[p] + n = Len(data) THEN "idle" ELSE "open"]
    /\ UNCHANGED <<wpay, rres, written, last, treeVars, packVars, cloneVars>>

\* cat-file -p <object> by another process
ReadObjectFile(hash) ==
    /\ rres' = [res |-> catFile(store, hash),
                file |-> IF hash \in DOMAIN store THEN store[hash] ELSE <<>>]
    /\ UNCHANGED <<store, pc, wpay, woff, written, last, treeVars, packVars, cloneVars>>

NextConc ==
    \/ \E p \in Procs, content \in Payloads : OpenObjectFile(p, content)
    \/ \E p \in Procs : WriteObjectFile(p)
    \/ \E content \in Payloads : ReadObjectFile(BlobOf[content].hash)

SpecConc == InitConc /\ [][NextConc]_vars

----------------------------------------------------------------------------
(* The tree builder on its own: write-tree run on directory after directory. *)

NextBuild ==
    \/ \E dir \in BuildTrees : WriteTree(dir)
    \/ \E content \in Payloads : HashObject(content)

SpecBuild == Init /\ [][NextBuild]_vars

----------------------------------------------------------------------------
(* C9: parseTreeObject applied to the bytes writeTreeObject builds for a    *)
(* sorted, name-unique entry sequence returns exactly that sequence: same   *)
(* order, same mode, name and digest in every entry.                        *)
C9_TreeRoundTrip ==
    tPhase = "decoded" => tParsed.ok /\ tParsed.entries = tEntries

\* a two-entry tree whose first digest holds a space and a NUL has been decoded
C9_Witness ==
    /\ tPhase = "decoded"
    /\ Len(tEntries) = 2
    /\ tEntries[1].hash = ToHex(RawMixed)
    /\ tEntries[1].name = <<97, SP, 98>>

\* the payload of a tree object: what follows the first NUL
TreePayload(objectData) == SubstrFrom(objectData, Find(objectData, NUL, 0) + 1)

\* length of the record of one entry: mode, space, name, NUL, 20 raw bytes
RecordLen(e) == Len(e.mode) + 1 + Len(e.name) + 1 + 20

RECURSIVE SumRecordLens(_)
SumRecordLens(entries) ==
    IF Len(entries) = 0 THEN 0
    ELSE RecordLen(entries[1]) + SumRecordLens(Tail(entries))

\* the record of entry i sits at its offset and is mode SP name NUL raw-digest
RecordAt(payload, entries, i) ==
    LET off == SumRecordLens(SubSeq(entries, 1, i - 1))
        e == entries[i]
        rec == Substr(payload, off, RecordLen(e))
    IN  /\ Len(rec) = RecordLen(e)
        /\ Substr(rec, 0, Len(e.mode)) = e.mode
        /\ rec[Len(e.mode) + 1] = SP
        /\ Substr(rec, Len(e.mode) + 1, Len(e.name)) = e.name
        /\ rec[Len(e.mode) + 1 + Len(e.name) + 1] = NUL
        /\ ToHex(SubstrFrom(rec, Len(e.mode) + 1 + Len(e.name) + 1)) = e.hash

(* C10: the payload of a tree object is, entry after entry in the given     *)
(* order, mode, one space, name, one NUL and the raw 20-byte digest, so its *)
(* length is the sum over the entries of len(mode)+1+len(name)+1+20.        *)
C10_TreeEncoding ==
    tPhase \in {"encoded", "decoded"} =>
        /\ Len(TreePayload(tData)) = SumRecordLens(tEntries)
        /\ \A i \in 1..Len(tEntries) : RecordAt(TreePayload(tData), tEntries, i)

\* a two-entry tree (a file and a directory) has been encoded
C10_Witness ==
    /\ tPhase = "encoded"
    /\ Len(tEntries) = 2
    /\ tEntries[1].mode = Mode_file /\ tEntries[2].mode = Mode_dir
    /\ tEntries[1].name = <<97>> /\ tEntries[2].name = <<98>>
    /\ Len(TreePayload(tData)) = 57

----------------------------------------------------------------------------
(* C1: once writeGitObject(P) has returned digest d, readGitObject(d)       *)
(* returns "blob <len(P)>\0" followed by P, whatever hash-object,           *)
(* write-tree, commit-tree and clone have written to the store since.       *)
C1_ReadAfterWrite ==
    \A content \in written :
        LET r == readGitObject(store, BlobOf[content].hash)
        IN r.ok /\ r.data = (Str_blob \o to_string(Len(content)) \o <<NUL>> \o content)

(* C2: every object file of the store sits under the digest computed from   *)
(* its own decompressed bytes.                                              *)
C2_ContentAddressed ==
    \A d \in DOMAIN store :
        /\ decompressZlib(store[d]).ok
        /\ computeSHA1(decompressZlib(store[d]).data) = d

(* C3: a digest present in the store stays present and its decompressed     *)
(* bytes never change, whatever command runs.                               *)
C3_Immutable ==
    [][\A d \in DOMAIN store :
          /\ d \in DOMAIN store'
          /\ decompressZlib(store'[d]) = decompressZlib(store[d])]_vars

\* the name of the kind each writing command writes
KindOf(op) ==
    IF op = "hash-object" THEN <<98, 108, 111, 98>>
    ELSE IF op = "write-tree" THEN <<116, 114, 101, 101>>
    ELSE <<99, 111, 109, 109, 105, 116>>

\* the number a string of decimal digits denotes
RECURSIVE DecimalValue(_)
DecimalValue(digits) ==
    IF Len(digits) = 0 THEN 0
    ELSE 10 * DecimalValue(SubSeq(digits, 1, Len(digits) - 1))
            + (digits[Len(digits)] - 48)

IsDecimal(digits) ==
    /\ Len(digits) >= 1
    /\ \A i \in 1..Len(digits) : digits[i] >= 48 /\ digits[i] <= 57
    /\ Len(digits) > 1 => digits[1] # 48

(* C6: the digest a writer returns is the digest of exactly                 *)
(* "<kind> <decimal length of the payload>\0<payload>", for the blob, tree  *)
(* and commit writers alike: a function of kind and payload alone, whatever *)
(* the store held before; and these are the bytes stored under it.          *)
C6_DigestOfHeaderAndPayload ==
    (last.op \in {"hash-object", "write-tree", "commit-tree"} /\ last.ok) =>
        LET kind == KindOf(last.op)
            digits == SubstrFrom(last.header, Len(kind) + 1)
        IN  /\ Substr(last.header, 0, Len(kind) + 1) = kind \o <<SP>>
            /\ IsDecimal(digits)
            /\ DecimalValue(digits) = Len(last.payload)
            /\ last.hash = computeSHA1(last.header \o <<NUL>> \o last.payload)
            /\ last.hash \in DOMAIN store
            /\ decompressZlib(store[last.hash]).data
                  = last.header \o <<NUL>> \o last.payload

\* a tree holding an entry has been written to a store that holds a commit
C6_Witness ==
    /\ last.op = "write-tree"
    /\ Len(last.payload) > 20
    /\ \E c \in CommitInputs : CommitOf[c].hash \in DOMAIN store

(* C7: cat-file of a digest whose object file is absent fails with the      *)
(* object-not-found error, prints nothing, and leaves the store as it was.  *)
C7_ReadAbsentFails ==
    [][(last'.op = "cat-file" /\ last'.hash \notin DOMAIN store) =>
          /\ ~last'.ok
          /\ last'.err = "not found"
          /\ last'.payload = <<>>
          /\ store' = store]_vars

\* cat-file of an absent digest has run on a store that holds other objects
C7_Witness ==
    /\ last.op = "cat-file"
    /\ last.hash \notin DOMAIN store
    /\ DOMAIN store # {}
    /\ ~last.ok

----------------------------------------------------------------------------
(* C4: a write whose digest already names a complete object file of the     *)
(* store is a no-op: no step of the writer changes the store.               *)
C4_WriteExistingIsNoOp ==
    [][\A p \in Procs :
          (/\ pc'[p] # pc[p] \/ woff'[p] # woff[p]
           /\ BlobOf[wpay'[p]].hash \in DOMAIN store
           /\ store[BlobOf[wpay'[p]].hash] = BlobOf[wpay'[p]].file)
          => store' = store]_vars

(* C5: under any interleaving of writers and a reader of one digest, a read *)
(* fails as not found or returns the complete object: never an empty or     *)
(* partly written one.                                                      *)
C5_NoPartialRead ==
    rres.res.op = "cat-file" =>
        \/ ~rres.res.ok /\ rres.res.err = "not found"
        \/ /\ rres.res.ok
           /\ computeSHA1(rres.res.header \o <<NUL>> \o rres.res.payload)
                 = rres.res.hash

\* the header of an object: a kind name, a space, the decimal payload length
WellFormedHeader(header, payload) ==
    \E kind \in {KindOf("hash-object"), KindOf("write-tree"), KindOf("commit-tree")} :
        /\ Substr(header, 0, Len(kind) + 1) = kind \o <<SP>>
        /\ IsDecimal(SubstrFrom(header, Len(kind) + 1))
        /\ DecimalValue(SubstrFrom(header, Len(kind) + 1)) = Len(payload)

\* an object file that is no complete stream of a well-formed object
CorruptFile(file) ==
    \/ InflateError(file)
    \/ file # compressZlib(InflateOutput(file))
    \/ Find(InflateOutput(file), NUL, 0) = NPOS
    \/ LET data == InflateOutput(file)
           nullPos == Find(data, NUL, 0)
       IN ~WellFormedHeader(Substr(data, 0, nullPos), SubstrFrom(data, nullPos + 1))

(* C8: cat-file fails, and prints no object, whenever the file it reads     *)
(* does not decompress, is a truncated stream, has no NUL-ended header, a   *)
(* malformed header, or a declared length other than the payload's.         *)
C8_CorruptRejected ==
    (rres.res.op = "cat-file" /\ rres.res.err # "not found"
        /\ CorruptFile(rres.file)) => ~rres.res.ok

----------------------------------------------------------------------------
\* the tree objects of a store: the decompressed bytes that start with "tree "
TreeObjectsOf(st) ==
    {decompressZlib(st[d]).data : d \in {x \in DOMAIN st :
        Substr(decompressZlib(st[x]).data, 0, Len(Str_tree)) = Str_tree}}

\* the name an entry is compared by: a directory's name with '/' after it
SortKey(e) == IF e.mode = Mode_dir THEN e.name \o <<47>> ELSE e.name

(* C11: in every tree object the builder has written, the entries stand in  *)
(* byte-wise order of their names, a directory's name taken with '/' after  *)
(* it: a directory "a" comes after a file "a.t".                            *)
C11_TreeSortedByGitRule ==
    \A data \in TreeObjectsOf(store) :
        LET entries == parseTreeObject(data).entries
        IN \A i \in 1..(Len(entries) - 1) :
              LexLess(SortKey(entries[i]), SortKey(entries[i + 1]))

\* the payload ends inside a record: at none of the offsets where the
\* records of the entries begin or end
EndsInsideRecord(payload, entries) ==
    Len(payload) \notin {SumRecordLens(SubSeq(entries, 1, k)) : k \in 0..Len(entries)}

(* C12: parseTreeObject reports an error when the tree payload ends inside  *)
(* a record (no space after the mode, no NUL after the name, fewer than 20  *)
(* digest bytes): it returns neither the entries before it nor an entry     *)
(* with a short digest.                                                     *)
C12_TruncatedTreeRejected ==
    (tPhase = "cutDecoded" /\ EndsInsideRecord(TreePayload(tData), tEntries))
        => ~tParsed.ok

\* a payload cut 19 bytes into a digest comes back as an entry whose digest
\* has 38 hex characters
C12_ShortDigestReturned ==
    /\ tPhase = "cutDecoded"
    /\ tParsed.ok
    /\ \E i \in 1..Len(tParsed.entries) : Len(tParsed.entries[i].hash) = 38

----------------------------------------------------------------------------
\* the object stored under hash in st is a tree for the directory: one entry
\* per regular file, whose digest is that of the stored blob of its bytes,
\* one entry per subdirectory, whose digest names a tree for it, none else
RECURSIVE IsTreeFor(_, _, _)
IsTreeFor(st, hash, dir) ==
    LET data == decompressZlib(st[hash]).data
        entries == parseTreeObject(data).entries
        files == {e \in dir : e.name # Name_git /\ e.kind = "file"}
        dirs == {e \in dir : e.name # Name_git /\ e.kind = "dir"}
    IN  /\ hash \in DOMAIN st
        /\ Substr(data, 0, Len(Str_tree)) = Str_tree
        /\ Len(entries) = Cardinality(files) + Cardinality(dirs)
        /\ \A i \in 1..Len(entries) : entries[i].name # Name_git
        /\ \A f \in files :
              LET blob == Str_blob \o to_string(Len(f.content)) \o <<NUL>> \o f.content
              IN /\ \E i \in 1..Len(entries) :
                       entries[i] = [mode |-> Mode_file, name |-> f.name,
                                     hash |-> computeSHA1(blob)]
                 /\ computeSHA1(blob) \in DOMAIN st
                 /\ decompressZlib(st[computeSHA1(blob)]).data = blob
        /\ \A d \in dirs :
              \E i \in 1..Len(entries) :
                 /\ entries[i].mode = Mode_dir
                 /\ entries[i].name = d.name
                 /\ IsTreeFor(st, entries[i].hash, d.children)

\* every file of the directory and of the directories below it, .git
\* aside, can be opened
RECURSIVE AllReadable(_)
AllReadable(dir) ==
    \A e \in dir :
        e.name = Name_git \/ (e.kind # "unreadable" /\ AllReadable(e.children))

RECURSIVE ReadableBelow(_)
ReadableBelow(dir) ==
    UNION {(IF AllReadable(e.children) THEN {e.children} ELSE {})
              \cup ReadableBelow(e.children) :
           e \in {x \in dir : x.name # Name_git /\ x.kind = "dir"}}

\* the digests whose object file a step has created or changed
Rewritten(st, st2) ==
    {d \in DOMAIN st2 : d \notin DOMAIN st \/ st2[d] # st[d]}

(* C14: write-tree on a directory that holds, at any depth, a file that     *)
(* cannot be opened fails: it prints no digest, and every tree object it    *)
(* has written is the tree of a directory below whose files could all be    *)
(* read, so none is a tree of the directory or of an ancestor of the file.  *)
C14_UnreadableFileFails ==
    [][\A dir \in BuildTrees :
          (WriteTree(dir) /\ ~AllReadable(dir))
          => /\ ~last'.ok
             /\ last'.op = "write-tree"
             /\ last'.hash = <<>> /\ last'.payload = <<>>
             /\ \A d \in Rewritten(store, store') :
                   Substr(decompressZlib(store'[d]).data, 0, Len(Str_tree)) = Str_tree
                   => \E sub \in ReadableBelow(dir) : IsTreeFor(store', d, sub)]_vars

\* write-tree has failed after it wrote the tree of a readable subdirectory
C14_Witness ==
    /\ last.op = "write-tree" /\ ~last.ok
    /\ \E data \in TreeObjectsOf(store) : Len(parseTreeObject(data).entries) = 1
    /\ Cardinality(DOMAIN store) = 2

----------------------------------------------------------------------------
\* one "parent <hex>\n" line per parent, in the order given
RECURSIVE ParentLines(_)
ParentLines(parents) ==
    IF Len(parents) = 0 THEN <<>>
    ELSE (Str_parentSp \o parents[1] \o <<LF>>) \o ParentLines(Tail(parents))

(* C15: commit-tree of a tree, a list of zero or more parents and a message *)
(* writes the payload "tree <hex>\n", one "parent <hex>\n" line per parent  *)
(* in the given order, the author and the committer line with a timestamp   *)
(* and the offset +0000, an empty line, and the message with a newline.     *)
C15_CommitEncoding ==
    [][\A c \in CommitInputs :
          CommitTree(c)
          => /\ last'.ok
             /\ last'.payload =
                   (Str_treeSp \o c[1] \o <<LF>>)
                   \o ParentLines(c[2])
                   \o (Str_author \o to_string(c[4]) \o Str_utc)
                   \o (Str_committer \o to_string(c[4]) \o Str_utc)
                   \o <<LF>>
                   \o (c[3] \o <<LF>>)]_vars

\* commit-tree has been refused for its argument list
C15_TwoParentsRefused ==
    /\ last.op = "commit-tree"
    /\ ~last.ok
    /\ last.err = "usage"

----------------------------------------------------------------------------
(* Packfiles: parseVarint and the two parsePackfile of the repository.      *)

\* 2^n
RECURSIVE Pow2(_)
Pow2(n) == IF n = 0 THEN 1 ELSE 2 * Pow2(n - 1)

Str_PACK == <<80, 65, 67, 75>>

\* the placeholder digest of parsePackfile (main.cpp)
Str_placeholderHash == [k \in 1..40 |-> 48]

\* parseVarint: 7 bits per byte, low bits first, until a byte without bit 7
\* or the end of the data; returns the value and the offset it leaves.  The
\* bits of the bytes do not overlap, so the or of the code is a sum; the
\* buffers here hold no number of more than four bytes, far from the 64 bits
\* of uint64_t
RECURSIVE ParseVarintLoop(_, _, _, _)
ParseVarintLoop(data, offset, result, shift) ==
    IF ~(offset < Len(data)) THEN [value |-> result, offset |-> offset]
    ELSE LET byte == data[offset + 1]
             r == result + (byte % 128) * Pow2(shift)
         IN IF byte < 128 THEN [value |-> r, offset |-> offset + 1]
            ELSE ParseVarintLoop(data, offset + 1, r, shift + 7)

parseVarint(data, offset) == ParseVarintLoop(data, offset, 0, 0)

\* what parsePackfile returns or throws; trace holds, per object, the offset
\* of its header, the offset after its header, and the offset the loop
\* goes on from
PackThrown(err) == [ok |-> FALSE, err |-> err, objects |-> <<>>, trace |-> <<>>]
PackReturned(objects, trace) ==
    [ok |-> TRUE, err |-> "", objects |-> objects, trace |-> trace]

\* parsePackfile (main.cpp): the length and signature tests, then one header
\* read by parseVarint and one placeholder object
parsePackfile_main(packData) ==
    IF Len(packData) < 12 THEN PackThrown("too short")
    ELSE IF Substr(packData, 0, 4) # Str_PACK THEN PackThrown("signature")
    ELSE IF ~(12 < Len(packData)) THEN PackReturned(<<>>, <<>>)
    ELSE LET header == parseVarint(packData, 12)
             type0 == (header.value \div 16) % 8
             size0 == header.value % 16
             s == IF size0 = 15 THEN parseVarint(packData, header.offset)
                  ELSE [value |-> size0, offset |-> header.offset]
             t == IF type0 = 7 THEN parseVarint(packData, s.offset)
                  ELSE [value |-> type0, offset |-> s.offset]
         IN PackReturned(
               <<[hash |-> Str_placeholderHash, data |-> <<>>,
                  type |-> t.value, size |-> s.value]>>,
               <<[at |-> 12, hdrEnd |-> t.offset, next |-> t.offset]>>)

\* extractPackfileFromResponse: the response from its first "PACK" on
extractPackfileFromResponse(response) ==
    LET packPos == FindStr(response, Str_PACK, 0)
    IN IF packPos # NPOS THEN [ok |-> TRUE, data |-> SubstrFrom(response, packPos)]
       ELSE [ok |-> FALSE, data |-> <<>>]

\* parsePackfile (part_001): the size bytes that follow the first header byte
RECURSIVE SizeLoop(_, _, _, _, _)
SizeLoop(actualPackfile, offset, c, size, shift) ==
    IF c < 128 THEN [size |-> size, offset |-> offset]
    ELSE IF offset >= Len(actualPackfile) THEN [size |-> size, offset |-> offset]
    ELSE LET c2 == actualPackfile[offset + 1]
         IN SizeLoop(actualPackfile, offset + 1, c2,
                     size + (c2 % 128) * Pow2(shift), shift + 7)

Str_unknown == <<117, 110, 107, 110, 111, 119, 110>>
Str_tag == <<116, 97, 103>>

\* parsePackfile (part_001): the name of the object type, without a space
TypeStr(type) ==
    IF type = 1 THEN SubSeq(Str_commit, 1, 6)
    ELSE IF type = 2 THEN SubSeq(Str_tree, 1, 4)
    ELSE IF type = 3 THEN SubSeq(Str_blob, 1, 4)
    ELSE IF type = 4 THEN Str_tag
    ELSE Str_unknown

\* parsePackfile (part_001): the loop over the objects
RECURSIVE PackLoop(_, _, _, _, _, _)
PackLoop(actualPackfile, numObjects, i, offset, objects, trace) ==
    IF ~(i < numObjects /\ offset < Len(actualPackfile))
    THEN PackReturned(objects, trace)
    ELSE LET c == actualPackfile[offset + 1]
             type == (c \div 16) % 8
             hdr == SizeLoop(actualPackfile, offset + 1, c, c % 16, 4)
         IN
    IF hdr.offset >= Len(actualPackfile) THEN PackReturned(objects, trace)
    ELSE LET remaining == Len(actualPackfile) - hdr.offset
             estimatedCompressedSize == Min(remaining, hdr.size + 100)
             compressedData == Substr(actualPackfile, hdr.offset,
                                      estimatedCompressedSize)
             z == decompressZlib(compressedData)
         IN
    IF ~z.ok THEN PackReturned(objects, trace)
    ELSE LET fullObjectData ==
                 TypeStr(type) \o <<SP>> \o to_string(Len(z.data)) \o <<NUL>> \o z.data
         IN PackLoop(actualPackfile, numObjects, i + 1,
                     hdr.offset + estimatedCompressedSize,
                     Append(objects, [hash |-> computeSHA1(fullObjectData),
                                      data |-> fullObjectData,
                                      type |-> type, size |-> hdr.size]),
                     Append(trace, [at |-> offset, hdrEnd |-> hdr.offset,
                                    next |-> hdr.offset + estimatedCompressedSize]))

\* parsePackfile (part_001): every exception is caught and the objects
\* parsed so far, none for a bad buffer, are returned
parsePackfile_part(packData) ==
    LET actual == extractPackfileFromResponse(packData) IN
    IF ~actual.ok THEN PackReturned(<<>>, <<>>)
    ELSE IF Len(actual.data) < 12 THEN PackReturned(<<>>, <<>>)
    ELSE IF Substr(actual.data, 0, 4) # Str_PACK THEN PackReturned(<<>>, <<>>)
    ELSE LET numObjects == actual.data[9] * Pow2(24) + actual.data[10] * Pow2(16)
                             + actual.data[11] * Pow2(8) + actual.data[12]
         IN PackLoop(actual.data, numObjects, 0, 12, <<>>, <<>>)

----------------------------------------------------------------------------
(* The packs the parsers are run on. *)

\* a number as 4 bytes, most significant first
BE32(n) ==
    <<(n \div Pow2(24)) % 256, (n \div Pow2(16)) % 256, (n \div Pow2(8)) % 256, n % 256>>

\* the size bits above the low four, 7 bits per byte, low bits first
RECURSIVE SizeBytes(_)
SizeBytes(n) ==
    IF n < 128 THEN <<n>> ELSE <<128 + (n % 128)>> \o SizeBytes(n \div 128)

\* the header of a pack object: type and size
PackObjHeader(type, size) ==
    IF size < 16 THEN <<type * 16 + size>>
    ELSE <<128 + type * 16 + (size % 16)>> \o SizeBytes(size \div 16)

\* a pack object: its header and its compressed data
PackEntry(type, data) == PackObjHeader(type, Len(data)) \o compressZlib(data)

RECURSIVE Concat(_)
Concat(seqs) == IF Len(seqs) = 0 THEN <<>> ELSE seqs[1] \o Concat(Tail(seqs))

\* a pack: signature, version, object count, the objects, and the digest of
\* all that as 20 raw bytes (or 20 other bytes)
PackBody(magic, version, count, entries) ==
    magic \o BE32(version) \o BE32(count) \o Concat(entries)
Pack(magic, version, count, entries, goodTrailer) ==
    PackBody(magic, version, count, entries)
    \o (IF goodTrailer THEN SHA1(PackBody(magic, version, count, entries))
        ELSE [k \in 1..SHA_DIGEST_LENGTH |-> 85])

\* a blob "h", a commit "c", a blob of 20 bytes (a two-byte header)
Entry_blob == PackEntry(3, <<104>>)
Entry_commit == PackEntry(1, <<99>>)
Entry_long == PackEntry(3, [k \in 1..20 |-> 97])
WellEntries == {Entry_blob, Entry_commit, Entry_long}

\* a three-byte header of size 2100, a stream with a wrong checksum, a
\* ref-delta (type 7), a blob of 15 bytes (size bits 1111)
Entry_declared == PackObjHeader(3, 2100) \o compressZlib(<<104>>)
Entry_corrupt == PackObjHeader(3, 1) \o ZHeader \o <<1, 104, 0>>
Entry_delta == PackEntry(7, <<104>>)
Entry_size15 == PackEntry(3, [k \in 1..15 |-> 97])

\* an ofs-delta (type 6) whose base offset is 0, the delta itself, and an
\* ofs-delta whose base is the object 6 bytes before it
Entry_selfDelta == PackObjHeader(6, 1) \o <<0>> \o compressZlib(<<104>>)
Entry_ofsDelta == PackObjHeader(6, 1) \o <<6>> \o compressZlib(<<104>>)

RECURSIVE EntrySeqs(_)
EntrySeqs(n) ==
    IF n = 0 THEN {<<>>}
    ELSE {Append(es, e) : es \in EntrySeqs(n - 1), e \in WellEntries}

\* the well-formed packs of version 2 with a right trailer
WellFormedPacks ==
    {Pack(Str_PACK, 2, Len(es), es, TRUE) :
        es \in UNION {EntrySeqs(n) : n \in 0..MaxPackObjects}}

Str_PACX == <<80, 65, 67, 88>>
Str_NAK == <<48, 48, 48, 56, 78, 65, 75, 10>>

\* fetch responses that carry a pack in side-band pkt-lines: "NAK", the pack
\* on channel 1 in one piece or in two with a channel-2 progress line in
\* between, and a flush
Pack_blob == Pack(Str_PACK, 2, 1, <<Entry_blob>>, TRUE)

SidebandResponses ==
    {Str_NAK \o PktLine(<<1>> \o Pack_blob) \o Str_flush,
     Str_NAK \o PktLine(<<1>> \o Substr(Pack_blob, 0, 12))
             \o PktLine(<<2, 111, 107, 10>>)
             \o PktLine(<<1>> \o SubstrFrom(Pack_blob, 12)) \o Str_flush}

PackInputs ==
    WellFormedPacks
    \cup SidebandResponses
    \cup {Pack(Str_PACK, 3, Len(es), es, TRUE) :
            es \in UNION {EntrySeqs(n) : n \in 0..MaxPackObjects}}
    \cup {Pack(Str_PACK, 2, Len(es), es, FALSE) :
            es \in UNION {EntrySeqs(n) : n \in 0..MaxPackObjects}}
    \cup {Pack(Str_PACK, 2, 1, <<e>>, TRUE) :
            e \in {Entry_declared, Entry_corrupt, Entry_delta, Entry_size15}}
    \cup {Pack(Str_PACK, 2, 1, <<Entry_selfDelta>>, TRUE),
          Pack(Str_PACK, 2, 2, <<Entry_blob, Entry_ofsDelta>>, TRUE),
          Pack(Str_PACK, 2, 2, <<Entry_blob, Entry_corrupt>>, TRUE),
          Pack(Str_PACX, 2, 1, <<Entry_blob>>, TRUE),
          Str_NAK \o Pack(Str_PACK, 2, 1, <<Entry_blob>>, TRUE),
          <<>>, Str_PACK, Str_PACK \o BE32(2) \o <<0, 0, 0>>}

InitPack ==
    /\ pPhase = "input"
    /\ pData \in PackInputs
    /\ pResult = PackReturned(<<>>, <<>>)
    /\ store = <<>> /\ written = {} /\ last = <<>>
    /\ pc = <<>> /\ wpay = <<>> /\ woff = <<>> /\ rres = <<>>
    /\ tPhase = "off" /\ tEntries = <<>> /\ tData = <<>>
    /\ tParsed = [ok |-> TRUE, entries |-> <<>>]
    /\ CloneIdle

\* parsePackfile of main.cpp on the buffer
ParsePackMain ==
    /\ pPhase = "input"
    /\ pResult' = parsePackfile_main(pData)
    /\ pPhase' = "main"
    /\ UNCHANGED <<pData, storeVars, concVars, treeVars, cloneVars>>

\* parsePackfile of part_001 on the buffer
ParsePackPart ==
    /\ pPhase = "input"
    /\ pResult' = parsePackfile_part(pData)
    /\ pPhase' = "part"
    /\ UNCHANGED <<pData, storeVars, concVars, treeVars, cloneVars>>

NextPack == ParsePackMain \/ ParsePackPart

SpecPack == InitPack /\ [][NextPack]_vars

----------------------------------------------------------------------------
(* What a pack is, read off the buffer byte by byte.                        *)

\* the 4-byte big-endian number at a 0-based offset
BE32At(buf, pos) ==
    buf[pos + 1] * Pow2(24) + buf[pos + 2] * Pow2(16) + buf[pos + 3] * Pow2(8)
        + buf[pos + 4]

\* the buffer a parser reads its offsets in: part_001 drops what precedes
\* the signature
BufferOf(phase, data) ==
    IF phase = "part" /\ extractPackfileFromResponse(data).ok
    THEN extractPackfileFromResponse(data).data
    ELSE data

\* 12 bytes or more, the signature at offset 0, version 2
GoodPackHeader(buf) ==
    /\ Len(buf) >= 12
    /\ Substr(buf, 0, 4) = Str_PACK
    /\ BE32At(buf, 4) = 2

\* the number of bytes of the object header at offset at: up to and with
\* the first byte that has bit 7 clear; 0 when the buffer ends before one
HeaderLen(buf, at) ==
    LET ends == {i \in at..(Len(buf) - 1) : buf[i + 1] < 128}
    IN IF ends = {} THEN 0 ELSE SetMin(ends) - at + 1

\* the size a header of n bytes at offset at encodes: the low 4 bits of its
\* first byte, then 7 bits per byte shifted left by 4, 11, 18, ...
RECURSIVE HeaderSizeFrom(_, _, _, _)
HeaderSizeFrom(buf, at, n, j) ==
    IF j > n - 1 THEN 0
    ELSE (buf[at + j + 1] % 128) * Pow2(4 + 7 * (j - 1))
            + HeaderSizeFrom(buf, at, n, j + 1)
HeaderSize(buf, at, n) == (buf[at + 1] % 16) + HeaderSizeFrom(buf, at, n, 1)
HeaderType(buf, at) == (buf[at + 1] \div 16) % 8

\* a complete zlib stream at the head of c, and the bytes it takes
StreamComplete(c) ==
    /\ Len(c) >= 4
    /\ Len(c) >= 4 + c[3]
    /\ SubSeq(c, 1, 2) = ZHeader
    /\ c[4 + c[3]] = SumBytes(SubSeq(c, 4, 3 + c[3]))
StreamLength(c) == 4 + c[3]

\* the offsets at which the n objects of a pack begin, found by walking the
\* headers and the streams from offset at; <<>> with ok FALSE when a header
\* or a stream is not whole
RECURSIVE ObjectOffsets(_, _, _)
ObjectOffsets(buf, n, at) ==
    IF n = 0 THEN [ok |-> TRUE, offsets |-> <<>>, end |-> at]
    ELSE LET h == HeaderLen(buf, at) IN
    IF h = 0 \/ ~StreamComplete(SubstrFrom(buf, at + h))
    THEN [ok |-> FALSE, offsets |-> <<>>, end |-> at]
    ELSE LET rest == ObjectOffsets(buf, n - 1,
                        at + h + StreamLength(SubstrFrom(buf, at + h)))
         IN [ok |-> rest.ok, offsets |-> <<at>> \o rest.offsets, end |-> rest.end]

\* the last 20 bytes are the digest of the bytes before them
TrailerMatches(buf) ==
    /\ Len(buf) >= 32
    /\ SubstrFrom(buf, Len(buf) - 20) = SHA1(Substr(buf, 0, Len(buf) - 20))

\* a well-formed pack: header, as many whole objects as it declares, then
\* nothing but the matching trailer
WellFormedPack(buf) ==
    /\ GoodPackHeader(buf)
    /\ TrailerMatches(buf)
    /\ ObjectOffsets(buf, BE32At(buf, 8), 12).ok
    /\ ObjectOffsets(buf, BE32At(buf, 8), 12).end = Len(buf) - 20

----------------------------------------------------------------------------
(* C16: parsePackfile rejects, with an error and no object, every buffer    *)
(* shorter than 12 bytes, or without "PACK" at offset 0, or whose version   *)
(* field is not 2.                                                          *)
C16_PackHeaderValidated ==
    (pPhase \in {"main", "part"} /\ ~GoodPackHeader(pData))
        => ~pResult.ok /\ pResult.objects = <<>>

\* a pack of version 3 has been parsed into an object
C16_Version3Accepted ==
    /\ pPhase \in {"main", "part"}
    /\ Len(pData) >= 12 /\ Substr(pData, 0, 4) = Str_PACK /\ BE32At(pData, 4) = 3
    /\ pResult.ok /\ Len(pResult.objects) >= 1

(* C17: for a well-formed pack whose header declares N objects the loop of  *)
(* parsePackfile runs N times and returns N objects, the i-th being the     *)
(* i-th object of the stream.                                               *)
C17_ParsesDeclaredCount ==
    (pPhase \in {"main", "part"} /\ WellFormedPack(pData))
        => LET n == BE32At(pData, 8)
               offsets == ObjectOffsets(pData, n, 12).offsets
           IN /\ pResult.ok
              /\ Len(pResult.objects) = n
              /\ Len(pResult.trace) = n
              /\ \A i \in 1..n : pResult.trace[i].at = offsets[i]

\* a well-formed pack of two objects has been parsed
C17_TwoObjectPackParsed ==
    /\ pPhase \in {"main", "part"}
    /\ WellFormedPack(pData)
    /\ BE32At(pData, 8) = 2

(* C18: for every object parsePackfile returns, the type is bits 4-6 of the *)
(* first header byte, the size is its low 4 bits plus the low 7 bits of     *)
(* each following header byte shifted left by 4, 11, 18, ..., and the       *)
(* cursor stands right after the last header byte.                          *)
C18_ObjectHeaderDecoded ==
    pPhase \in {"main", "part"} =>
        \A i \in 1..Len(pResult.objects) :
            LET buf == BufferOf(pPhase, pData)
                at == pResult.trace[i].at
                n == HeaderLen(buf, at)
            IN n > 0 =>
                /\ pResult.objects[i].type = HeaderType(buf, at)
                /\ pResult.objects[i].size = HeaderSize(buf, at, n)
                /\ pResult.trace[i].hdrEnd = at + n

\* an object with a header of two bytes or more has been returned
C18_LongHeaderParsed ==
    /\ pPhase \in {"main", "part"}
    /\ Len(pResult.objects) >= 1
    /\ HeaderLen(BufferOf(pPhase, pData), pResult.trace[1].at) >= 2

(* C19: after each object it has decompressed, parsePackfile goes on from   *)
(* the first byte after that object's compressed stream: the offset after   *)
(* the header plus the bytes the stream takes.                              *)
C19_CursorAfterStream ==
    pPhase = "part" =>
        \A i \in 1..Len(pResult.objects) :
            LET buf == BufferOf(pPhase, pData)
                stream == SubstrFrom(buf, pResult.trace[i].hdrEnd)
            IN StreamComplete(stream) =>
                pResult.trace[i].next = pResult.trace[i].hdrEnd + StreamLength(stream)

\* the loop has gone on from an offset past the end of the first stream
C19_CursorPastStream ==
    /\ pPhase = "part"
    /\ Len(pResult.objects) >= 1
    /\ StreamComplete(SubstrFrom(BufferOf(pPhase, pData), pResult.trace[1].hdrEnd))
    /\ pResult.trace[1].next >
          pResult.trace[1].hdrEnd
            + StreamLength(SubstrFrom(BufferOf(pPhase, pData), pResult.trace[1].hdrEnd))

(* C20: when the trailing checksum of a pack does not match, or one of its  *)
(* objects does not decode, parsePackfile ends with an error and returns    *)
(* no object of the pack.                                                   *)
C20_PackAllOrNothing ==
    (/\ pPhase \in {"main", "part"}
     /\ GoodPackHeader(pData)
     /\ \/ ~TrailerMatches(pData)
        \/ ~ObjectOffsets(pData, BE32At(pData, 8), 12).ok)
        => ~pResult.ok /\ pResult.objects = <<>>

\* objects of a pack with a wrong trailer have been returned
C20_BadTrailerAccepted ==
    /\ pPhase = "part"
    /\ GoodPackHeader(pData)
    /\ ~TrailerMatches(pData)
    /\ pResult.ok /\ Len(pResult.objects) >= 1

----------------------------------------------------------------------------
\* the first object of the pack is an ofs-delta whose base offset is 0: its
\* base is the delta itself
SelfReferentialDelta(buf) ==
    /\ GoodPackHeader(buf)
    /\ HeaderLen(buf, 12) > 0
    /\ HeaderType(buf, 12) = 6
    /\ Len(buf) > 12 + HeaderLen(buf, 12)
    /\ buf[12 + HeaderLen(buf, 12) + 1] = 0

(* C21: parsePackfile ends on every pack, and on a pack whose delta         *)
(* references form a cycle, a delta that is its own base included, it ends  *)
(* with an error.                                                           *)
C21_DeltaCycleRejected ==
    (pPhase \in {"main", "part"} /\ SelfReferentialDelta(pData))
        => ~pResult.ok

\* a pack whose one object is a delta of itself has been parsed with no error
C21_SelfDeltaAccepted ==
    /\ pPhase \in {"main", "part"}
    /\ SelfReferentialDelta(pData)
    /\ pResult.ok

----------------------------------------------------------------------------
\* the length a pkt-line states in its four hexadecimal digits at pos
PktLength(resp, pos) ==
    4096 * HexVal(resp[pos + 1]) + 256 * HexVal(resp[pos + 2])
        + 16 * HexVal(resp[pos + 3]) + HexVal(resp[pos + 4])

\* the payloads of the channel-1 pkt-lines of resp from pos on, in order,
\* without their length prefix and channel byte
RECURSIVE ChannelOne(_, _)
ChannelOne(resp, pos) ==
    IF pos + 4 > Len(resp) THEN <<>>
    ELSE LET n == PktLength(resp, pos)
             payload == Substr(resp, pos + 4, n - 4)
         IN IF n <= 4 THEN ChannelOne(resp, pos + 4)
            ELSE (IF payload[1] = 1 THEN Tail(payload) ELSE <<>>)
                     \o ChannelOne(resp, pos + n)

(* C24: the bytes parsePackfile parses out of a side-band fetch response    *)
(* are exactly the channel-1 pkt-line payloads of the response, in order,   *)
(* with every length prefix, channel byte and other packet removed.         *)
C24_SidebandDemultiplexed ==
    (pPhase = "part" /\ pData \in SidebandResponses)
        => BufferOf(pPhase, pData) = ChannelOne(pData, 0)

\* a side-band response has been parsed, its pack is the well-formed
\* one-blob pack, and the bytes parsed were not that pack
C24_FramingLeftInPack ==
    /\ pPhase = "part"
    /\ pData \in SidebandResponses
    /\ ChannelOne(pData, 0) = Pack_blob
    /\ BufferOf(pPhase, pData) # Pack_blob

----------------------------------------------------------------------------
(* cloneRepository step by step: what it leaves in the target directory, in *)
(* the working directory of the process and in requestBody, and what it     *)
(* asks of the peer.                                                        *)

Str_masterOld == Str_master \o <<45, 111, 108, 100>>
Str_want == <<119, 97, 110, 116, 32>>
Str_done == <<100, 111, 110, 101, 10>>
Str_have == <<104, 97, 118, 101, 32>> \o [k \in 1..40 |-> 48] \o <<LF>>
Str_0032want == <<48, 48, 51, 50>> \o Str_want
Str_flush000edone == <<LF>> \o Str_flush \o <<48, 48, 48, 101>> \o Str_done
Str_refSp == <<114, 101, 102, 58, 32>>
Str_HEADSp == <<72, 69, 65, 68, 58, 32>>

\* an advertisement of several refs, one pkt-line for each
AdvertisementOf(lines) ==
    Str_service \o Str_flush
        \o Concat([k \in 1..Len(lines) |->
                     PktLine(lines[k][1] \o <<SP>> \o lines[k][2] \o <<LF>>)])
        \o Str_flush

\* the bodies of the info/refs reply: those of one ref, and those where
\* refs/heads/master-old stands before refs/heads/master, stands alone, and
\* where refs/heads/main and refs/heads/master have different digests
CloneBodies ==
    Bodies
    \cup {AdvertisementOf(<<<<Str_targetHash, Str_masterOld>>,
                            <<EmptyTreeHash, Str_master>>>>),
          AdvertisementOf(<<<<Str_targetHash, Str_masterOld>>>>),
          AdvertisementOf(<<<<EmptyTreeHash, Str_mainRef>>,
                            <<Str_targetHash, Str_master>>>>)}

CloneReplies ==
    {r \in Replies : ~r.urlOk \/ ~r.transportOk \/ r.status # 200}
    \cup {[urlOk |-> TRUE, transportOk |-> TRUE, status |-> 200, body |-> b] :
            b \in CloneBodies}

\* the files cloneRepository opens for writing
Path_HEAD == ".git/HEAD"
Path_ref == ".git/refs/heads/main"
Path_README == "README.md"
Path_tree == "treeFilename"
Path_commit == "commitFilename"
OpenTargets == {Path_HEAD, Path_ref, Path_README, Path_tree, Path_commit}

GitDirs == {"targetDir", ".git", ".git/objects", ".git/refs", ".git/refs/heads"}

CloneInputs ==
    [version : {"main", "part"}, reply : CloneReplies, noOpen : SUBSET OpenTargets]

\* std::ofstream f(path); if (f.is_open()) { f << content; }
WriteIfOpen(fs, noOpen, path, content) ==
    IF path \in noOpen THEN fs
    ELSE [p \in DOMAIN fs \cup {path} |-> IF p = path THEN content ELSE fs[p]]

RequestBody_main(ref) == Str_want \o ref \o <<LF>> \o Str_have \o Str_done
RequestBody_part(ref) == Str_0032want \o ref \o Str_flush000edone

InitClone ==
    /\ cPhase = "idle" /\ cIn = <<>> /\ cCwd = "original"
    /\ cDirs = {} /\ cFiles = <<>> /\ cHeadRef = <<>>
    /\ cRequestBody = <<>> /\ cCalls = <<>>
    /\ InitStore /\ ConcIdle /\ TreeIdle /\ PackIdle

\* cloneRepository from its entry to the info/refs request: the url check,
\* the target directory, the change of directory, .git and .git/HEAD
CloneStart(in) ==
    /\ cPhase = "idle"
    /\ cIn' = in
    /\ IF ~in.reply.urlOk
       THEN /\ cPhase' = "failed"
            /\ UNCHANGED <<cCwd, cDirs, cFiles>>
       ELSE /\ cPhase' = "discover"
            /\ cDirs' = GitDirs
            /\ cCwd' = "targetDir"
            /\ cFiles' = WriteIfOpen(cFiles, in.noOpen, Path_HEAD,
                                     Str_refSp \o Str_mainRef \o <<LF>>)
    /\ UNCHANGED <<cHeadRef, cRequestBody, cCalls,
                   storeVars, concVars, treeVars, packVars>>

\* the info/refs request, headRef out of its body, and requestBody
CloneDiscoverRefs ==
    LET r == cIn.reply
        ref == IF cIn.version = "main" THEN HeadRefFixed(r.body)
               ELSE HeadRefMaster(r.body)
    IN  /\ cPhase = "discover"
        /\ cCalls' = Append(cCalls, "info/refs")
        /\ IF ~CloneOutcome(r, ref).ok
           THEN /\ cPhase' = "failed"
                /\ UNCHANGED <<cHeadRef, cRequestBody>>
           ELSE /\ cPhase' = "request"
                /\ cHeadRef' = ref
                /\ cRequestBody' = IF cIn.version = "main"
                                   THEN RequestBody_main(ref)
                                   ELSE RequestBody_part(ref)
        /\ UNCHANGED <<cIn, cCwd, cDirs, cFiles,
                       storeVars, concVars, treeVars, packVars>>

\* from requestBody to the return: no request is sent; part_001 writes the
\* empty tree and a commit under headRef; both write the ref and README.md,
\* go back to the original directory and print "Cloned"
CloneFinish ==
    LET st1 == IF Path_tree \in cIn.noOpen THEN store
               ELSE PutFile(store, CloneTreeFile[1], CloneTreeFile[2])
        st2 == IF Path_commit \in cIn.noOpen THEN st1
               ELSE PutFile(st1, cHeadRef, CloneCommitFile)
        fs1 == WriteIfOpen(cFiles, cIn.noOpen, Path_ref, cHeadRef \o <<LF>>)
    IN  /\ cPhase = "request"
        /\ store' = IF cIn.version = "part" THEN st2 ELSE store
        /\ cFiles' = WriteIfOpen(fs1, cIn.noOpen, Path_README,
                                 Str_HEADSp \o cHeadRef \o <<LF>>)
        /\ cDirs' = IF cIn.version = "part"
                    THEN cDirs \cup {"treeDir", "commitDir"} ELSE cDirs
        /\ cCwd' = "original"
        /\ cPhase' = "done"
        /\ UNCHANGED <<cIn, cHeadRef, cRequestBody, cCalls,
                       written, last, concVars, treeVars, packVars>>

NextClone ==
    \/ \E in \in CloneInputs : CloneStart(in)
    \/ CloneDiscoverRefs
    \/ CloneFinish

SpecClone == InitClone /\ [][NextClone]_vars

----------------------------------------------------------------------------
\* the payloads of the pkt-lines of an advertisement from pos on, the
\* service announcement and the flush markers left out
RECURSIVE AdvertisedLines(_, _)
AdvertisedLines(body, pos) ==
    IF pos + 4 > Len(body) THEN {}
    ELSE LET n == PktLength(body, pos)
             payload == Substr(body, pos + 4, n - 4)
         IN IF n <= 4 THEN AdvertisedLines(body, pos + 4)
            ELSE (IF payload[1] = 35 THEN {} ELSE {payload})
                     \cup AdvertisedLines(body, pos + n)

\* the digest and the ref name of the line "<digest> <ref name>[\0<caps>]\n"
LineDigest(line) == Substr(line, 0, 40)
LineRef(line) ==
    LET nul == Find(line, NUL, 41)
        end == IF nul # NPOS THEN nul ELSE Find(line, LF, 41)
    IN Substr(line, 41, end - 41)

(* C22: the digest cloneRepository goes on with is the digest of the        *)
(* advertisement line whose ref name is exactly the requested ref (the      *)
(* default branch, refs/heads/main or refs/heads/master); when no line      *)
(* carries that name the clone fails.                                       *)
C22_RefSelectedByName ==
    cPhase \in {"request", "done"}
        => \E line \in AdvertisedLines(cIn.reply.body, 0) :
              /\ LineDigest(line) = cHeadRef
              /\ LineRef(line) \in {Str_mainRef, Str_master}

\* a clone has ended with "Cloned" on the digest of refs/heads/master-old,
\* the only ref the peer advertised
C22_DigestOfOtherRef ==
    /\ cPhase = "done"
    /\ \A line \in AdvertisedLines(cIn.reply.body, 0) :
          LineRef(line) = Str_masterOld /\ LineDigest(line) = cHeadRef
    /\ AdvertisedLines(cIn.reply.body, 0) # {}

(* C23: requestBody is the pkt-line of "want <headRef>\n", the flush "0000" *)
(* and the pkt-line of "done\n", each prefix four hexadecimal digits of 4   *)
(* plus the number of payload bytes.                                        *)
C23_RequestBodyFramed ==
    cPhase \in {"request", "done"}
        => cRequestBody = PktLine(Str_want \o cHeadRef \o <<LF>>) \o Str_flush
                              \o PktLine(Str_done)

\* part_001 has built a requestBody whose "done\n" line states length 000e
C23_DoneLine000e ==
    /\ cPhase = "request"
    /\ cIn.version = "part"
    /\ SubstrFrom(cRequestBody, 54) = <<48, 48, 48, 101>> \o Str_done
    /\ PktLine(Str_done) = <<48, 48, 48, 57>> \o Str_done

(* C25: when cloneRepository fails, nothing it created remains: no          *)
(* directory of the store, no HEAD, no ref file and no object.              *)
C25_FailedCloneLeavesNothing ==
    cPhase = "failed" => cDirs = {} /\ cFiles = <<>> /\ store = <<>>

\* the peer answered 404 and .git and .git/HEAD are there
C25_HeadLeftAfter404 ==
    /\ cPhase = "failed"
    /\ cIn.reply.status = 404
    /\ ".git" \in cDirs
    /\ Path_HEAD \in DOMAIN cFiles

(* C26: cloneRepository ends with "Cloned" only after the ref discovery,    *)
(* the pack request and its response, and the unpacking of the pack, in     *)
(* that order.                                                              *)
C26_DoneAfterAllSteps ==
    cPhase = "done"
        => cCalls = <<"info/refs", "git-upload-pack", "parsePackfile">>

\* a clone has ended with "Cloned" after the info/refs request alone
C26_DoneAfterDiscoveryOnly ==
    cPhase = "done" /\ cCalls = <<"info/refs">>

(* C27: cloneRepository does not end with "Cloned" when a write of HEAD, of *)
(* the ref or of an object failed: after "Cloned", HEAD and the ref file    *)
(* are there and hold what was written to them, and so is every object the  *)
(* clone wrote.                                                             *)
C27_NoWriteFailureSwallowed ==
    cPhase = "done"
        => /\ Path_HEAD \in DOMAIN cFiles
           /\ Path_ref \in DOMAIN cFiles
           /\ cFiles[Path_ref] = cHeadRef \o <<LF>>
           /\ cIn.version = "part"
                 => {CloneTreeHash, cHeadRef} \subseteq DOMAIN store

\* a clone has ended with "Cloned" although HEAD, the ref file and both
\* objects could not be opened
C27_ClonedWithNothingWritten ==
    /\ cPhase = "done"
    /\ cIn.version = "part"
    /\ Path_HEAD \notin DOMAIN cFiles
    /\ Path_ref \notin DOMAIN cFiles
    /\ store = <<>>

(* C28: whenever cloneRepository has ended, by return or by throw, the      *)
(* working directory of the process is the one it was called in.            *)
C28_WorkingDirectoryRestored ==
    cPhase \in {"done", "failed"} => cCwd = "original"

\* the info/refs request failed in transport and the process is left in the
\* target directory
C28_LeftInTargetDir ==
    /\ cPhase = "failed"
    /\ ~cIn.reply.transportOk
    /\ cCwd = "targetDir"

----------------------------------------------------------------------------
\* the digests an object refers to: the targets of a tree's entries, the
\* tree and the parent of a commit
ReferencedDigests(objectData) ==
    LET content == SubstrFrom(objectData, Find(objectData, NUL, 0) + 1)
    IN IF Substr(objectData, 0, Len(Str_tree)) = Str_tree
       THEN {e.hash : e \in {parseTreeObject(objectData).entries[k] :
                               k \in 1..Len(parseTreeObject(objectData).entries)}}
       ELSE IF Substr(objectData, 0, Len(Str_commit)) = Str_commit
       THEN {Substr(content, 5, 40)}
                \cup (IF Substr(content, 46, 7) = Str_parentSp
                      THEN {Substr(content, 53, 40)} ELSE {})
       ELSE {}

(* C30: every digest a stored object refers to, the targets of a tree's     *)
(* entries and the tree and parents of a commit, is the digest of an object *)
(* of the store.                                                            *)
C30_ReferentialClosure ==
    \A d \in DOMAIN store :
        decompressZlib(store[d]).ok
            => ReferencedDigests(decompressZlib(store[d]).data) \subseteq DOMAIN store

\* commit-tree has written a commit whose tree is not in the store
C30_CommitOfAbsentTree ==
    /\ last.op = "commit-tree" /\ last.ok
    /\ last.hash \in DOMAIN store
    /\ Substr(last.payload, 5, 40) = EmptyTreeHash
    /\ EmptyTreeHash \notin DOMAIN store

----------------------------------------------------------------------------
====
